---- MODULE Spec2Model ----
(***************************************************************************)
(* Model of src/src/register-commands.mjs: the one-shot script that reads  *)
(* its configuration from the process environment, validates it, builds    *)
(* the command catalog and either previews it (dry run) or submits it with *)
(* one bulk-replace request, classifying any error the request throws.     *)
(*                                                                         *)
(* Strings the code inspects character by character (environment values,   *)
(* identifiers) are sequences of one-character strings; strings it only    *)
(* compares whole (arguments, command names, error codes) are TLA+ strings.*)
(***************************************************************************)
EXTENDS Integers, Sequences, FiniteSets, TLC

VARIABLES
    env,            \* process.env: a function from the names that are set to their values
    argv,           \* process.argv.slice(2)
    pc,             \* position of the script
    DISCORD_TOKEN,  \* module constants of lines 26-28
    CLIENT_ID,
    GUILD_ID,
    commands,       \* the serialized catalog (line 59), <<>> before it is built
    dryRun,         \* line 107
    debugFlag,      \* line 108
    out,            \* every console.log / console.error call so far, in order
    exitCode,       \* process.exitCode (0 while unset)
    exitStatus,     \* the status the process ended with, meaningful when pc = "exited"
    requests,       \* the requests handed to rest.put, in order
    error,          \* the value caught at line 131
    registry,       \* the platform's registered commands: pairs <<route, name>>
    prevOutcome     \* how the previous run of the tool ended ("none" on the first run)

vars == <<env, argv, pc, DISCORD_TOKEN, CLIENT_ID, GUILD_ID, commands, dryRun,
          debugFlag, out, exitCode, exitStatus, requests, error, registry, prevOutcome>>

-----------------------------------------------------------------------------
(* Bounds of the model *)

\* how far below 17 and above 20 digits the identifier inputs reach
Slack == 1
\* the longest list of constituent errors of an aggregate error
MaxErrors == 2

(* Constants of the program *)

\* /^\d{17,20}$/
SnowflakeMin == 17
SnowflakeMax == 20

-----------------------------------------------------------------------------
(* Characters and strings *)

Whitespace == {" ", "\t"}
DigitChars == <<"0", "1", "2", "3", "4", "5", "6", "7", "8", "9">>
UpperChars == <<"A", "B", "C", "D", "E", "F", "G", "H", "I", "J", "K", "L", "M",
                "N", "O", "P", "Q", "R", "S", "T", "U", "V", "W", "X", "Y", "Z">>
LowerChars == <<"a", "b", "c", "d", "e", "f", "g", "h", "i", "j", "k", "l", "m",
                "n", "o", "p", "q", "r", "s", "t", "u", "v", "w", "x", "y", "z">>

Range(s) == {s[i] : i \in DOMAIN s}

\* String.prototype.trim: strip whitespace from both ends
RECURSIVE TrimStart(_)
TrimStart(s) ==
    IF s = <<>> THEN s
    ELSE IF Head(s) \in Whitespace THEN TrimStart(Tail(s)) ELSE s

RECURSIVE TrimEnd(_)
TrimEnd(s) ==
    IF s = <<>> THEN s
    ELSE IF s[Len(s)] \in Whitespace THEN TrimEnd(SubSeq(s, 1, Len(s) - 1)) ELSE s

Trim(s) == TrimEnd(TrimStart(s))

\* String.prototype.toLowerCase
LowerChar(c) ==
    IF \E i \in DOMAIN UpperChars : UpperChars[i] = c
    THEN LowerChars[CHOOSE i \in DOMAIN UpperChars : UpperChars[i] = c]
    ELSE c

ToLowerCase(s) == [i \in DOMAIN s |-> LowerChar(s[i])]

\* JavaScript truthiness of a string
Truthy(s) == Len(s) > 0

-----------------------------------------------------------------------------
(* readEnv, lines 10-23 *)

\* the value readEnv(name) returns in environment e
ReadEnvValue(e, name) ==
    IF name \in DOMAIN e
    THEN LET trimmed == Trim(e[name])
         IN IF Truthy(trimmed) THEN trimmed ELSE <<>>
    ELSE <<>>

\* process.env after readEnv(name): the trimmed value is reflected back
ReadEnvEffect(e, name) ==
    IF name \in DOMAIN e /\ Truthy(Trim(e[name]))
    THEN [e EXCEPT ![name] = Trim(e[name])]
    ELSE e

RequiredVars == <<"DISCORD_TOKEN", "CLIENT_ID", "GUILD_ID">>

\* lines 30-36: filter the pairs with a falsy value, keep the names, in order
RECURSIVE FilterMissing(_)
FilterMissing(pairs) ==
    IF pairs = <<>> THEN <<>>
    ELSE IF ~Truthy(Head(pairs)[2])
         THEN <<Head(pairs)[1]>> \o FilterMissing(Tail(pairs))
         ELSE FilterMissing(Tail(pairs))

\* a variant that reports the first missing name only
missingVars_FirstOnly(token, clientId, guildId) ==
    LET all == FilterMissing(<< <<"DISCORD_TOKEN", token>>, <<"CLIENT_ID", clientId>>,
                                <<"GUILD_ID", guildId>> >>)
    IN IF all = <<>> THEN <<>> ELSE <<Head(all)>>

missingVars(token, clientId, guildId) ==
    FilterMissing(<< <<"DISCORD_TOKEN", token>>, <<"CLIENT_ID", clientId>>,
                     <<"GUILD_ID", guildId>> >>)

\* a variant whose lower bound is off by one: /^\d{16,20}$/
snowflakePattern_OffByOne(s) ==
    /\ Len(s) >= SnowflakeMin - 1
    /\ Len(s) <= SnowflakeMax
    /\ \A i \in DOMAIN s : s[i] \in Range(DigitChars)

\* line 47: /^\d{17,20}$/.test(s)
snowflakePattern(s) ==
    /\ Len(s) >= SnowflakeMin
    /\ Len(s) <= SnowflakeMax
    /\ \A i \in DOMAIN s : s[i] \in Range(DigitChars)

-----------------------------------------------------------------------------
(* The catalog, lines 59-101 *)

Catalog ==
    << [name |-> "ping", type |-> "slash",
        options |-> <<>>],
       [name |-> "echo", type |-> "slash",
        options |-> << [name |-> "text", kind |-> "string", required |-> TRUE] >>],
       [name |-> "roll", type |-> "slash",
        options |-> << [name |-> "sides", kind |-> "integer", required |-> FALSE] >>],
       [name |-> "ye", type |-> "slash",
        options |-> << [name |-> "text", kind |-> "string", required |-> TRUE],
                       [name |-> "style", kind |-> "string", required |-> FALSE] >>],
       [name |-> "Ye Olde-ify", type |-> "message",
        options |-> <<>>] >>

\* Routes.applicationGuildCommands(CLIENT_ID, GUILD_ID), line 125
Route(clientId, guildId) == <<clientId, guildId>>

\* a variant that submits the slash commands only
RequestBody_SlashOnly(cmds) == SelectSeq(cmds, LAMBDA c : c.type = "slash")

\* the body of the request, line 126
RequestBody(cmds) == cmds

-----------------------------------------------------------------------------
(* Console output *)

Line(tag, arg) == [tag |-> tag, arg |-> arg]

Printed(tag) == \E i \in DOMAIN out : out[i].tag = tag

Count(tag) == Cardinality({i \in DOMAIN out : out[i].tag = tag})

-----------------------------------------------------------------------------
(* The values rest.put can throw, as far as the catch block inspects them *)

\* error.code: the number 50001, a network code, another code, or none
Codes == {"none", "50001", "ENOTFOUND", "ENETUNREACH", "OTHER"}
\* error.rawError?.code
RawCodes == {"none", "50001"}
\* error.status, 0 when the error has none
Statuses == {0, 401, 403, 500}
\* the code of a constituent of an aggregate error
ConstituentCodes == {"ENETUNREACH", "ENOTFOUND", "ECONNREFUSED"}

SeqsUpTo(S, n) == UNION {[1..k -> S] : k \in 0..n}

\* error.errors: undefined on a plain error; on an AggregateError an array of
\* errors, or (the property is writable) any other value, which has no .every
NoErrors == [kind |-> "undefined", items |-> <<>>]
NonArrayErrors == [kind |-> "nonArray", items |-> <<>>]
ArrayErrors == {[kind |-> "array", items |-> s] : s \in SeqsUpTo(ConstituentCodes, MaxErrors)}

ErrorShapes ==
    {[code |-> c, rawCode |-> r, status |-> st, aggregate |-> FALSE, errors |-> NoErrors] :
        c \in Codes, r \in RawCodes, st \in Statuses}
    \cup
    {[code |-> x[1], rawCode |-> x[2], status |-> x[3], aggregate |-> TRUE, errors |-> x[4]] :
        x \in Codes \X RawCodes \X Statuses \X (ArrayErrors \cup {NonArrayErrors})}

NoError == [code |-> "none", rawCode |-> "none", status |-> 0, aggregate |-> FALSE,
            errors |-> NoErrors, thrown |-> FALSE]

Thrown(e) == [code |-> e.code, rawCode |-> e.rawCode, status |-> e.status,
              aggregate |-> e.aggregate, errors |-> e.errors, thrown |-> TRUE]

-----------------------------------------------------------------------------
(* The catch block, lines 131-162 *)

\* line 132
IsMissingAccess(e) == e.code = "50001" \/ e.rawCode = "50001"

\* line 148: error.errors?.every(...). Optional chaining guards undefined only:
\* on a value that is not an array the call itself throws a TypeError
EveryThrows(e) == e.errors.kind = "nonArray"

EveryUnreachable(e) ==
    /\ e.errors.kind = "array"
    /\ \A i \in DOMAIN e.errors.items : e.errors.items[i] \in {"ENETUNREACH", "ENOTFOUND"}

\* a variant that tests the HTTP status before the platform code
Branch_StatusFirst(e) ==
    IF e.status = 401 THEN "Unauthorized"
    ELSE IF e.status = 403 THEN "Forbidden"
    ELSE IF IsMissingAccess(e) THEN "AccessDenied"
    ELSE IF e.aggregate /\ EveryThrows(e) THEN "throws"
    ELSE IF e.aggregate /\ EveryUnreachable(e) THEN "NetworkUnreachable"
    ELSE IF e.code = "ENOTFOUND" \/ e.code = "ENETUNREACH" THEN "NetworkUnreachable"
    ELSE "UnknownFailure"

\* the branch of the if / else-if chain that runs, or "throws" when evaluating
\* the condition of line 147-148 throws
Branch(e) ==
    IF IsMissingAccess(e) THEN "AccessDenied"
    ELSE IF e.status = 401 THEN "Unauthorized"
    ELSE IF e.status = 403 THEN "Forbidden"
    ELSE IF e.aggregate /\ EveryThrows(e) THEN "throws"
    ELSE IF e.aggregate /\ EveryUnreachable(e) THEN "NetworkUnreachable"
    ELSE IF e.code = "ENOTFOUND" \/ e.code = "ENETUNREACH" THEN "NetworkUnreachable"
    ELSE "UnknownFailure"

\* a variant that trims the value before testing it
InviteHint_Trimmed(e) ==
    IF "DISCORD_BOT_INVITE" \in DOMAIN e /\ Truthy(Trim(e["DISCORD_BOT_INVITE"]))
    THEN << Line("InviteHeader", <<>>), Line("InviteUrl", e["DISCORD_BOT_INVITE"]) >>
    ELSE <<>>

\* line 138: if (process.env.DISCORD_BOT_INVITE)
InviteHint(e) ==
    IF "DISCORD_BOT_INVITE" \in DOMAIN e /\ Truthy(e["DISCORD_BOT_INVITE"])
    THEN << Line("InviteHeader", <<>>), Line("InviteUrl", e["DISCORD_BOT_INVITE"]) >>
    ELSE <<>>

\* a variant whose network branch also prints the error
BranchOutput_NetworkDump(b, err, e) ==
    CASE b = "AccessDenied" ->
            << Line("MissingAccess", <<>>), Line("Cause1", <<>>), Line("Cause2", <<>>),
               Line("Cause3", <<>>), Line("Cause4", <<>>) >> \o InviteHint(e)
      [] b = "Unauthorized" -> << Line("Unauthorized", <<>>) >>
      [] b = "Forbidden" -> << Line("Forbidden", <<>>) >>
      [] b = "NetworkUnreachable" -> << Line("NetworkError", <<>>), Line("Failed", <<err>>) >>
      [] b = "UnknownFailure" -> << Line("Failed", <<err>>) >>
      [] OTHER -> <<>>

\* the console.error calls of the branch taken, lines 133-157
BranchOutput(b, err, e) ==
    CASE b = "AccessDenied" ->
            << Line("MissingAccess", <<>>), Line("Cause1", <<>>), Line("Cause2", <<>>),
               Line("Cause3", <<>>), Line("Cause4", <<>>) >> \o InviteHint(e)
      [] b = "Unauthorized" -> << Line("Unauthorized", <<>>) >>
      [] b = "Forbidden" -> << Line("Forbidden", <<>>) >>
      [] b = "NetworkUnreachable" -> << Line("NetworkError", <<>>), Line("NetworkHint", <<>>) >>
      [] b = "UnknownFailure" -> << Line("Failed", <<err>>) >>
      [] OTHER -> <<>>

\* lines 158-160
DebugOutput(flag, err) == IF flag THEN << Line("Debug", <<err>>) >> ELSE <<>>

-----------------------------------------------------------------------------
(* Run mode, lines 106-109 *)

\* a variant that forgets the short flag
DryRunFlag_NoShort(args) == "--dry-run" \in args \/ "--noop" \in args

DryRunFlag(args) == "--dry-run" \in args \/ "--noop" \in args \/ "-n" \in args

DebugWords == { <<"1">>, <<"t", "r", "u", "e">>, <<"y", "e", "s">> }

\* a variant that compares the environment toggle without lowering its case
DebugFlag_CaseSensitive(args, e) ==
    \/ "--debug" \in args
    \/ (IF "DEBUG" \in DOMAIN e THEN e["DEBUG"] ELSE <<>>) \in DebugWords

DebugFlag(args, e) ==
    \/ "--debug" \in args
    \/ (IF "DEBUG" \in DOMAIN e THEN ToLowerCase(e["DEBUG"]) ELSE <<>>) \in DebugWords

-----------------------------------------------------------------------------
(* The diagnostic outcome of a run, read off the messages it printed *)

Outcome ==
    CASE Printed("MissingVars") -> "ConfigError"
      [] Printed("InvalidId") -> "ValidationError"
      [] Printed("Unexpected") -> "Unexpected"
      [] Printed("MissingAccess") -> "AccessDenied"
      [] Printed("Unauthorized") -> "Unauthorized"
      [] Printed("Forbidden") -> "Forbidden"
      [] Printed("NetworkError") -> "NetworkUnreachable"
      [] Printed("Failed") -> "UnknownFailure"
      [] Printed("Registered") \/ Printed("DryRun") -> "Success"
      [] OTHER -> "none"

-----------------------------------------------------------------------------
(* Inputs *)

Unset == [set |-> FALSE, value |-> <<>>]
Val(s) == [set |-> TRUE, value |-> s]

\* the environment in which exactly the chosen names are set
MkEnv(choice) == [n \in {m \in DOMAIN choice : choice[m].set} |-> choice[n].value]

Digs(n) == [i \in 1..n |-> DigitChars[((i - 1) % 10) + 1]]

Token == <<"t", "0", "k">>
InviteUrl == <<"h", "t", "t", "p", "s", ":", "/", "/", "x">>

TokenInputs ==
    {Unset, Val(<<>>), Val(<<" ", "\t">>), Val(Token), Val(<<" ">> \o Token \o <<"\t">>)}

IdLengths ==
    ((SnowflakeMin - Slack)..SnowflakeMin) \cup (SnowflakeMax..(SnowflakeMax + Slack))

IdInputs ==
    {Unset, Val(<<>>), Val(<<" ">>)}
    \cup {Val(Digs(n)) : n \in IdLengths}
    \cup {Val(<<" ">> \o Digs(SnowflakeMin) \o <<"\t">>),
          Val(Digs(SnowflakeMin - 1) \o <<"x">>)}

InviteInputs == {Unset, Val(<<>>), Val(<<" ">>), Val(InviteUrl)}

DebugInputs ==
    {Unset, Val(<<"1">>), Val(<<"T", "r", "u", "e">>), Val(<<"Y", "E", "S">>),
     Val(<<"0">>), Val(<<"y", "e", "s", " ">>)}

ArgvInputs ==
    { <<>>, <<"--dry-run">>, <<"--noop">>, <<"-n">>, <<"--debug">>,
      <<"--debug", "--dry-run">>, <<"--verbose", "-n">> }

\* the registry before the run: commands of an earlier deployment
PriorRoute == Route(Digs(SnowflakeMin), Digs(SnowflakeMin))
PriorRegistries == { {}, {<<PriorRoute, "legacy">>}, {<<PriorRoute, "ping">>, <<PriorRoute, "legacy">>} }

\* the state of a process that has just started
Fresh(e, a) ==
    /\ env = e
    /\ argv = a
    /\ pc = "start"
    /\ DISCORD_TOKEN = <<>>
    /\ CLIENT_ID = <<>>
    /\ GUILD_ID = <<>>
    /\ commands = <<>>
    /\ dryRun = FALSE
    /\ debugFlag = FALSE
    /\ out = <<>>
    /\ exitCode = 0
    /\ exitStatus = 0
    /\ requests = <<>>
    /\ error = NoError

\* every value of the three required variables, few of the optional inputs
InitRequired ==
    \E t \in TokenInputs, c \in IdInputs, g \in IdInputs,
       i \in {Unset}, d \in {Unset},
       a \in { <<>>, <<"--dry-run">>, <<"--debug">> } :
        Fresh(MkEnv([DISCORD_TOKEN |-> t, CLIENT_ID |-> c, GUILD_ID |-> g,
                     DISCORD_BOT_INVITE |-> i, DEBUG |-> d]), a)

\* a valid configuration, every value of the optional inputs and arguments
InitOptional ==
    \E i \in InviteInputs, d \in DebugInputs, a \in ArgvInputs :
        Fresh(MkEnv([DISCORD_TOKEN |-> Val(Token), CLIENT_ID |-> Val(Digs(SnowflakeMin)),
                     GUILD_ID |-> Val(Digs(SnowflakeMin)),
                     DISCORD_BOT_INVITE |-> i, DEBUG |-> d]), a)

Init ==
    /\ InitRequired \/ InitOptional
    /\ registry = {<<PriorRoute, "legacy">>}
    /\ prevOutcome = "none"

-----------------------------------------------------------------------------
(* The script, top to bottom *)

\* lines 26-44: read the three variables, report the missing ones and exit
LoadConfig ==
    /\ pc = "start"
    /\ LET e1 == ReadEnvEffect(env, "DISCORD_TOKEN")
           e2 == ReadEnvEffect(e1, "CLIENT_ID")
           e3 == ReadEnvEffect(e2, "GUILD_ID")
           token == ReadEnvValue(env, "DISCORD_TOKEN")
           clientId == ReadEnvValue(e1, "CLIENT_ID")
           guildId == ReadEnvValue(e2, "GUILD_ID")
           missing == missingVars(token, clientId, guildId)
       IN /\ env' = e3
          /\ DISCORD_TOKEN' = token
          /\ CLIENT_ID' = clientId
          /\ GUILD_ID' = guildId
          /\ IF Len(missing) > 0
             THEN /\ out' = out \o << Line("MissingVars", <<>>), Line("MissingNames", missing),
                                      Line("MissingHint", <<>>) >>
                  /\ exitCode' = 1
                  /\ exitStatus' = 1
                  /\ pc' = "exited"
             ELSE /\ pc' = "loaded"
                  /\ UNCHANGED <<out, exitCode, exitStatus>>
    /\ UNCHANGED <<argv, commands, dryRun, debugFlag, requests, error, registry, prevOutcome>>

\* lines 46-57: the two identifier checks, CLIENT_ID first
ValidateIds ==
    /\ pc = "loaded"
    /\ IF ~snowflakePattern(CLIENT_ID)
       THEN /\ out' = Append(out, Line("InvalidId", <<"CLIENT_ID">>))
            /\ exitStatus' = 1
            /\ pc' = "exited"
       ELSE IF ~snowflakePattern(GUILD_ID)
       THEN /\ out' = Append(out, Line("InvalidId", <<"GUILD_ID">>))
            /\ exitStatus' = 1
            /\ pc' = "exited"
       ELSE /\ pc' = "validated"
            /\ UNCHANGED <<out, exitStatus>>
    /\ UNCHANGED <<env, argv, DISCORD_TOKEN, CLIENT_ID, GUILD_ID, commands, dryRun, debugFlag,
                   exitCode, requests, error, registry, prevOutcome>>

\* lines 59-103: build and serialize the catalog, create the client
BuildCatalog ==
    /\ pc = "validated"
    /\ commands' = Catalog
    /\ pc' = "ready"
    /\ UNCHANGED <<env, argv, DISCORD_TOKEN, CLIENT_ID, GUILD_ID, dryRun, debugFlag, out,
                   exitCode, exitStatus, requests, error, registry, prevOutcome>>

\* lines 105-114: registerCommands up to the dispatch
StartRegistration ==
    /\ pc = "ready"
    /\ LET args == Range(argv)
       IN /\ dryRun' = DryRunFlag(args)
          /\ debugFlag' = DebugFlag(args, env)
    /\ out' = out \o << Line("Starting", <<>>), Line("ApplicationId", CLIENT_ID),
                        Line("GuildId", GUILD_ID) >>
    /\ pc' = "dispatch"
    /\ UNCHANGED <<env, argv, DISCORD_TOKEN, CLIENT_ID, GUILD_ID, commands, exitCode,
                   exitStatus, requests, error, registry, prevOutcome>>

\* lines 116-123: the preview
DryRunPreview ==
    /\ pc = "dispatch"
    /\ dryRun
    /\ out' = out \o << Line("DryRun", <<>>), Line("WouldRegister", <<>>) >>
                  \o [i \in DOMAIN commands |-> Line("Command", <<commands[i].name>>)]
    /\ pc' = "settled"
    /\ UNCHANGED <<env, argv, DISCORD_TOKEN, CLIENT_ID, GUILD_ID, commands, dryRun, debugFlag,
                   exitCode, exitStatus, requests, error, registry, prevOutcome>>

\* what a bulk replace does to the registry: the commands of the route become
\* exactly those of the body
BulkReplace(reg, route, body) ==
    {p \in reg : p[1] # route} \cup {<<route, body[i].name>> : i \in DOMAIN body}

Request == [route |-> Route(CLIENT_ID, GUILD_ID), body |-> RequestBody(commands)]

\* lines 125-130: the request succeeds
PutSucceeds ==
    /\ pc = "dispatch"
    /\ ~dryRun
    /\ requests' = Append(requests, Request)
    /\ registry' = BulkReplace(registry, Request.route, Request.body)
    /\ out' = out \o << Line("Registered", <<>>), Line("Available", <<>>) >>
    /\ pc' = "settled"
    /\ UNCHANGED <<env, argv, DISCORD_TOKEN, CLIENT_ID, GUILD_ID, commands, dryRun, debugFlag,
                   exitCode, exitStatus, error, prevOutcome>>

\* a variant that sends the request a second time after a failure
PutFails_Retry(e) ==
    /\ pc = "dispatch"
    /\ ~dryRun
    /\ requests' = requests \o <<Request, Request>>
    /\ error' = Thrown(e)
    /\ LET b == Branch(e)
       IN IF b = "throws"
          THEN /\ pc' = "rejected"
               /\ UNCHANGED <<out, exitCode>>
          ELSE /\ out' = out \o BranchOutput(b, Thrown(e), env) \o DebugOutput(debugFlag, Thrown(e))
               /\ exitCode' = 1
               /\ pc' = "settled"
    /\ UNCHANGED <<env, argv, DISCORD_TOKEN, CLIENT_ID, GUILD_ID, commands, dryRun, debugFlag,
                   exitStatus, registry, prevOutcome>>

\* a variant that leaves process.exitCode alone
PutFails_NoExitCode(e) ==
    /\ pc = "dispatch"
    /\ ~dryRun
    /\ requests' = Append(requests, Request)
    /\ error' = Thrown(e)
    /\ LET b == Branch(e)
       IN IF b = "throws"
          THEN /\ pc' = "rejected"
               /\ UNCHANGED out
          ELSE /\ out' = out \o BranchOutput(b, Thrown(e), env) \o DebugOutput(debugFlag, Thrown(e))
               /\ pc' = "settled"
    /\ UNCHANGED <<env, argv, DISCORD_TOKEN, CLIENT_ID, GUILD_ID, commands, dryRun, debugFlag,
                   exitCode, exitStatus, registry, prevOutcome>>

\* lines 125-127 and 131-162: the request throws e and the catch block runs
PutFails(e) ==
    /\ pc = "dispatch"
    /\ ~dryRun
    /\ requests' = Append(requests, Request)
    /\ error' = Thrown(e)
    /\ LET b == Branch(e)
       IN IF b = "throws"
          THEN /\ pc' = "rejected"
               /\ UNCHANGED <<out, exitCode>>
          ELSE /\ out' = out \o BranchOutput(b, Thrown(e), env) \o DebugOutput(debugFlag, Thrown(e))
               /\ exitCode' = 1
               /\ pc' = "settled"
    /\ UNCHANGED <<env, argv, DISCORD_TOKEN, CLIENT_ID, GUILD_ID, commands, dryRun, debugFlag,
                   exitStatus, registry, prevOutcome>>

\* lines 165-168: the promise of registerCommands() was rejected
UnexpectedFailure ==
    /\ pc = "rejected"
    /\ out' = Append(out, Line("Unexpected", <<"TypeError">>))
    /\ exitStatus' = 1
    /\ pc' = "exited"
    /\ UNCHANGED <<env, argv, DISCORD_TOKEN, CLIENT_ID, GUILD_ID, commands, dryRun, debugFlag,
                   exitCode, requests, error, registry, prevOutcome>>

\* the promise resolved and nothing is left to run: the process ends with
\* process.exitCode
ExitNaturally ==
    /\ pc = "settled"
    /\ exitStatus' = exitCode
    /\ pc' = "exited"
    /\ UNCHANGED <<env, argv, DISCORD_TOKEN, CLIENT_ID, GUILD_ID, commands, dryRun, debugFlag,
                   out, exitCode, requests, error, registry, prevOutcome>>

Next ==
    \/ LoadConfig
    \/ ValidateIds
    \/ BuildCatalog
    \/ StartRegistration
    \/ DryRunPreview
    \/ PutSucceeds
    \/ \E e \in ErrorShapes : PutFails(e)
    \/ UnexpectedFailure
    \/ ExitNaturally

Spec == Init /\ [][Next]_vars

-----------------------------------------------------------------------------
(* Running the tool again *)

\* how a finished run ended: a preview, or its diagnostic outcome
RunResult == IF Printed("DryRun") THEN "Preview" ELSE Outcome

ValidEnv ==
    MkEnv([DISCORD_TOKEN |-> Val(Token), CLIENT_ID |-> Val(Digs(SnowflakeMin)),
           GUILD_ID |-> Val(Digs(SnowflakeMin)), DISCORD_BOT_INVITE |-> Unset, DEBUG |-> Unset])

RerunEnvs ==
    { ValidEnv,
      MkEnv([DISCORD_TOKEN |-> Unset, CLIENT_ID |-> Val(Digs(SnowflakeMin)),
             GUILD_ID |-> Val(Digs(SnowflakeMin)), DISCORD_BOT_INVITE |-> Unset, DEBUG |-> Unset]),
      MkEnv([DISCORD_TOKEN |-> Val(Token), CLIENT_ID |-> Val(Digs(SnowflakeMin)),
             GUILD_ID |-> Val(<<"x">>), DISCORD_BOT_INVITE |-> Unset, DEBUG |-> Unset]) }

RerunArgv == { <<>>, <<"--dry-run">> }

InitRerun ==
    /\ \E e \in RerunEnvs, a \in RerunArgv : Fresh(e, a)
    /\ registry \in PriorRegistries
    /\ prevOutcome = "none"

\* the operator starts the tool again: a new process, the same platform
Restart ==
    /\ pc = "exited"
    /\ prevOutcome' = RunResult
    /\ \E e \in RerunEnvs, a \in RerunArgv :
        /\ env' = e
        /\ argv' = a
    /\ pc' = "start"
    /\ DISCORD_TOKEN' = <<>>
    /\ CLIENT_ID' = <<>>
    /\ GUILD_ID' = <<>>
    /\ commands' = <<>>
    /\ dryRun' = FALSE
    /\ debugFlag' = FALSE
    /\ out' = <<>>
    /\ exitCode' = 0
    /\ exitStatus' = 0
    /\ requests' = <<>>
    /\ error' = NoError
    /\ UNCHANGED registry

NextRerun == Next \/ Restart

SpecRerun == InitRerun /\ [][NextRerun]_vars

-----------------------------------------------------------------------------
(* Claims *)

\* a required variable is absent: unset, empty or all whitespace
Blank(e, n) == n \notin DOMAIN e \/ \A i \in DOMAIN e[n] : e[n][i] \in Whitespace

AbsentNames(e) == {n \in Range(RequiredVars) : Blank(e, n)}

NamesReported == UNION {Range(out[i].arg) : i \in {j \in DOMAIN out : out[j].tag = "MissingNames"}}

\* C1: from any environment in which a required variable is unset, empty or all
\* whitespace, the first step of the run prints one message listing exactly the
\* absent names and ends the process with status 1, no catalog built and no
\* request sent; and a run that reported missing variables is in that final state.
C1_MissingReported ==
    /\ [][(pc = "start" /\ AbsentNames(env) # {}) =>
            /\ pc' = "exited"
            /\ exitStatus' = 1
            /\ Count("MissingNames")' = 1
            /\ NamesReported' = AbsentNames(env)
            /\ commands' = <<>>
            /\ requests' = <<>>]_vars
    /\ [](Printed("MissingVars") =>
            pc = "exited" /\ exitStatus = 1 /\ commands = <<>> /\ requests = <<>>)

C1_Witness ==
    /\ pc = "exited"
    /\ Printed("MissingVars")
    /\ NamesReported = {"DISCORD_TOKEN", "GUILD_ID"}
    /\ "DISCORD_TOKEN" \in DOMAIN env
    /\ "CLIENT_ID" \in DOMAIN env /\ Len(env["CLIENT_ID"]) > 0

-----------------------------------------------------------------------------
\* the configuration passed the missing-variable check
ConfigLoaded == pc \notin {"start"} /\ ~Printed("MissingVars")

\* a string of 17 to 20 decimal digits
IsSnowflake(s) == Len(s) \in 17..20 /\ Range(s) \subseteq {"0", "1", "2", "3", "4", "5", "6", "7", "8", "9"}

Offending ==
    {f \in {"CLIENT_ID", "GUILD_ID"} :
        ~IsSnowflake(IF f = "CLIENT_ID" THEN CLIENT_ID ELSE GUILD_ID)}

FieldsNamed == UNION {Range(out[i].arg) : i \in {j \in DOMAIN out : out[j].tag = "InvalidId"}}

\* the run was rejected before the catalog and the network, with status 1
RejectedEarly == pc = "exited" /\ exitStatus = 1 /\ commands = <<>> /\ requests = <<>>

\* C2 as stated: with all three variables present, once the identifier checks
\* have run, a malformed identifier ends the run with status 1 before the
\* catalog and the network, and every offending field is named.
C2_EachOffenderNamed ==
    (ConfigLoaded /\ pc # "loaded" /\ Offending # {}) =>
        RejectedEarly /\ FieldsNamed = Offending

\* C2 amended: as above, but the diagnostic names the first offending field
\* only, CLIENT_ID before GUILD_ID.
C2_FirstOffenderNamed ==
    (ConfigLoaded /\ pc # "loaded" /\ Offending # {}) =>
        /\ RejectedEarly
        /\ Count("InvalidId") = 1
        /\ FieldsNamed = {IF "CLIENT_ID" \in Offending THEN "CLIENT_ID" ELSE "GUILD_ID"}

C2_Witness ==
    /\ pc = "exited"
    /\ Len(CLIENT_ID) = SnowflakeMin - 1
    /\ Len(GUILD_ID) = SnowflakeMax + 1
    /\ FieldsNamed = {"CLIENT_ID"}

-----------------------------------------------------------------------------
\* the environment holds a valid configuration
ValidConfig ==
    /\ AbsentNames(env) = {}
    /\ IsSnowflake(Trim(env["CLIENT_ID"]))
    /\ IsSnowflake(Trim(env["GUILD_ID"]))

DryRunRequested == Range(argv) \cap {"--dry-run", "--noop", "-n"} # {}

ExpectedNames == <<"ping", "echo", "roll", "ye", "Ye Olde-ify">>

NamesPrinted ==
    LET lines == SelectSeq(out, LAMBDA l : l.tag = "Command")
    IN [i \in DOMAIN lines |-> lines[i].arg[1]]

\* C3: with a valid configuration and any of --dry-run, --noop, -n among the
\* arguments, no request is ever sent, and the run ends with status 0 having
\* printed the five command names in catalog order and no failure.
C3_DryRunPreview ==
    (ValidConfig /\ DryRunRequested) =>
        /\ requests = <<>>
        /\ pc # "rejected"
        /\ pc \in {"settled", "exited"} => (NamesPrinted = ExpectedNames /\ Outcome = "Success")
        /\ pc = "exited" => exitStatus = 0

C3_Witness ==
    /\ pc = "exited"
    /\ argv = <<"--verbose", "-n">>
    /\ NamesPrinted = ExpectedNames
    /\ exitStatus = 0

-----------------------------------------------------------------------------
ClassificationTags == {"MissingAccess", "Unauthorized", "Forbidden", "NetworkError", "Failed"}

Classifications == Cardinality({i \in DOMAIN out : out[i].tag \in ClassificationTags})

BodyNames(r) == [i \in DOMAIN r.body |-> r.body[i].name]

OneFullRequest ==
    /\ Len(requests) = 1
    /\ BodyNames(requests[1]) = ExpectedNames
    /\ requests[1].route = <<Trim(env["CLIENT_ID"]), Trim(env["GUILD_ID"])>>

-----------------------------------------------------------------------------
\* C5: the process ends with status 0 exactly when it printed a dry-run preview
\* or its one request succeeded; every other end, a failed request included,
\* has status 1.
C5_ExitStatus ==
    pc = "exited" =>
        /\ exitStatus \in {0, 1}
        /\ exitStatus = 0 <=> (Printed("DryRun") \/ (Len(requests) = 1 /\ ~error.thrown))
        /\ error.thrown => exitStatus = 1

C5_Witness ==
    /\ pc = "exited"
    /\ exitStatus = 1
    /\ error.thrown
    /\ Printed("Unexpected")

-----------------------------------------------------------------------------
\* the rows of the classification table, in order; row 5 either for a single
\* (non-aggregate) error only, or for any error by its own top-level code
Row(k, e, singleOnly) ==
    CASE k = 1 -> "50001" \in {e.code, e.rawCode}
      [] k = 2 -> e.status = 401
      [] k = 3 -> e.status = 403
      [] k = 4 -> e.aggregate /\ Range(e.errors.items) \subseteq {"ENETUNREACH", "ENOTFOUND"}
      [] k = 5 -> (singleOnly => ~e.aggregate) /\ e.code \in {"ENETUNREACH", "ENOTFOUND"}
      [] k = 6 -> TRUE

RowOutcome ==
    <<"AccessDenied", "Unauthorized", "Forbidden", "NetworkUnreachable", "NetworkUnreachable",
      "UnknownFailure">>

FirstRow(e, singleOnly) ==
    CHOOSE k \in 1..6 : Row(k, e, singleOnly) /\ \A j \in 1..(k - 1) : ~Row(j, e, singleOnly)

\* the error has the shape the table speaks of: its constituents, if it is an
\* aggregate, are a list of errors
TableShape(e) == e.aggregate => e.errors.kind = "array"

Classified == error.thrown /\ pc \in {"settled", "exited"}

\* C6 as stated: after a failed submission whose error is of the table's shape,
\* the one diagnostic printed is that of the first matching row of the table,
\* whose row 5 is a single error with code ENETUNREACH or ENOTFOUND.
C6_FirstMatchingRow ==
    (Classified /\ TableShape(error)) =>
        /\ Classifications = 1
        /\ Outcome = RowOutcome[FirstRow(error, TRUE)]

\* C6 amended: the same with row 5 read off the error's own top-level code,
\* whether or not the error is an aggregate.
C6_FirstMatchingRowByCode ==
    (Classified /\ TableShape(error)) =>
        /\ Classifications = 1
        /\ Outcome = RowOutcome[FirstRow(error, FALSE)]

C6_Witness ==
    /\ Classified
    /\ error.code = "50001"
    /\ error.status = 403
    /\ Outcome = "AccessDenied"

-----------------------------------------------------------------------------
HintLines == Count("InviteHeader") + Count("InviteUrl")

\* the hint is either printed whole, echoing the variable, or not at all
HintPrinted ==
    /\ Count("InviteHeader") = 1
    /\ \E i \in DOMAIN out : out[i] = Line("InviteUrl", env["DISCORD_BOT_INVITE"])

\* C7 as stated: a failed submission whose error carries code 50001 is reported
\* as AccessDenied whatever DISCORD_BOT_INVITE is, with the invite hint exactly
\* when that variable is set; no other run prints the hint.
C7_HintIffSet ==
    /\ (Classified /\ "50001" \in {error.code, error.rawCode}) =>
            /\ Outcome = "AccessDenied"
            /\ IF "DISCORD_BOT_INVITE" \in DOMAIN env THEN HintPrinted ELSE HintLines = 0
    /\ Outcome # "AccessDenied" => HintLines = 0

\* C7 amended: ... with the invite hint exactly when that variable is set to a
\* non-empty string.
C7_HintIffNonEmpty ==
    /\ (Classified /\ "50001" \in {error.code, error.rawCode}) =>
            /\ Outcome = "AccessDenied"
            /\ IF "DISCORD_BOT_INVITE" \in DOMAIN env /\ env["DISCORD_BOT_INVITE"] # <<>>
               THEN HintPrinted
               ELSE HintLines = 0
    /\ Outcome # "AccessDenied" => HintLines = 0

C7_Witness ==
    /\ Classified
    /\ error.rawCode = "50001"
    /\ "DISCORD_BOT_INVITE" \in DOMAIN env
    /\ env["DISCORD_BOT_INVITE"] = <<>>
    /\ Outcome = "AccessDenied"
    /\ HintLines = 0

-----------------------------------------------------------------------------
EqualIgnoringCase(a, b) ==
    Len(a) = Len(b) /\ \A i \in DOMAIN a : LowerChar(a[i]) = LowerChar(b[i])

DebugActive ==
    \/ "--debug" \in Range(argv)
    \/ /\ "DEBUG" \in DOMAIN env
       /\ \E w \in { <<"1">>, <<"t", "r", "u", "e">>, <<"y", "e", "s">> } :
            EqualIgnoringCase(env["DEBUG"], w)

\* C9: when debug mode is active (--debug, or DEBUG equal to 1, true or yes in
\* any case), a failed submission that one of the six branches classified also
\* prints the raw error, once, after the classified message; when debug mode is
\* inactive no debug dump is ever printed.
C9_DebugDump ==
    /\ (Classified /\ Classifications = 1 /\ DebugActive) =>
            /\ Count("Debug") = 1
            /\ out[Len(out)] = Line("Debug", <<error>>)
    /\ ~DebugActive => Count("Debug") = 0

C9_Witness ==
    /\ Classified
    /\ "--debug" \notin Range(argv)
    /\ "DEBUG" \in DOMAIN env
    /\ env["DEBUG"] = <<"Y", "E", "S">>
    /\ error.aggregate
    /\ Outcome = "NetworkUnreachable"
    /\ Count("Debug") = 1

-----------------------------------------------------------------------------
\* the raw error object was printed
RawErrorPrinted == Printed("Failed") \/ Printed("Debug")

Fatal == pc = "exited" /\ exitStatus # 0

SpecificOutcomes ==
    {"ConfigError", "ValidationError", "AccessDenied", "Unauthorized", "Forbidden",
     "NetworkUnreachable"}

\* C10 as stated: every fatal end has printed a diagnostic, and no run whose
\* outcome is ConfigError, ValidationError, AccessDenied, Unauthorized,
\* Forbidden or NetworkUnreachable prints the raw error, in any run mode.
C10_OnlyUnknownDumps ==
    /\ Fatal => Outcome \notin {"none", "Success"}
    /\ Outcome \in SpecificOutcomes => ~RawErrorPrinted

\* C10 amended: every fatal end has printed a diagnostic; a run whose outcome
\* is ConfigError or ValidationError never prints the raw error; a run whose
\* outcome is AccessDenied, Unauthorized, Forbidden or NetworkUnreachable
\* prints it only as the debug dump, and so only when debug mode is active;
\* with debug mode inactive only an UnknownFailure run prints it.
C10_DumpOnlyInDebug ==
    /\ Fatal => Outcome \notin {"none", "Success"}
    /\ Outcome \in {"ConfigError", "ValidationError"} => ~RawErrorPrinted
    /\ Outcome \in SpecificOutcomes =>
            /\ ~Printed("Failed")
            /\ Printed("Debug") => DebugActive
    /\ (RawErrorPrinted /\ ~DebugActive) => Outcome = "UnknownFailure"

C10_Witness ==
    /\ Fatal
    /\ Outcome = "Forbidden"
    /\ Printed("Debug")

-----------------------------------------------------------------------------
RegisteredAt(route) == {p[2] : p \in {q \in registry : q[1] = route}}

SuccessTranscript ==
    << Line("Starting", <<>>), Line("ApplicationId", CLIENT_ID), Line("GuildId", GUILD_ID),
       Line("Registered", <<>>), Line("Available", <<>>) >>

\* C8: after a successful live run the guild's registered commands are exactly
\* the catalog, whatever was registered before; throughout the run that follows
\* a successful one they still are; and a run whose request succeeds prints the
\* same transcript and ends with status 0 however the previous run ended.
C8_Idempotent ==
    /\ Printed("Registered") => RegisteredAt(Route(CLIENT_ID, GUILD_ID)) = Range(ExpectedNames)
    /\ prevOutcome = "Success" => RegisteredAt(PriorRoute) = Range(ExpectedNames)
    /\ (pc = "exited" /\ Len(requests) = 1 /\ ~error.thrown) =>
            (out = SuccessTranscript /\ exitStatus = 0)

C8_Witness ==
    /\ prevOutcome = "Unauthorized"
    /\ pc = "exited"
    /\ Printed("Registered")
    /\ exitStatus = 0
    /\ "legacy" \notin RegisteredAt(PriorRoute)

====
